---------------------------- MODULE Spec2Model ----------------------------
(***************************************************************************)
(* A model of the cryptotik exchange clients: cryptotik/bittrex.py         *)
(* (classes Bittrex and BittrexNormalized) and cryptotik/coinmarketcap.py  *)
(* (class CoinMarketCap).                                                  *)
(*                                                                         *)
(* Python strings are sequences of one-character strings, so that lower(), *)
(* islower(), replace(), split() and "in" are computed character by        *)
(* character as CPython computes them.  An operation's outcome is a record *)
(* [kind, error, value]: kind "return" with the returned value, or kind    *)
(* "raise" with the name of the exception that reaches the caller.         *)
(***************************************************************************)
EXTENDS Integers, Sequences, FiniteSets, TLC

VARIABLES
    cls,        \* class of the client instance: "Bittrex" or "BittrexNormalized"
    creds,      \* whether __init__ got apikey and secret (self.apikey, self.secret set)
    clock,      \* what int(time.time()) reads now
    _nonce,     \* the instance attribute self._nonce (NoAttr until first set)
    headers,    \* the "apisign" entry of the headers dict (NoSign until first set)
    sent,       \* the HTTP requests issued by the most recent call, in order
    nonces,     \* the nonce of every private request sent so far, in order
    call,       \* the most recent call of an operation and its arguments
    result,     \* its outcome
    todo,       \* cancel_all_orders: the open orders still to iterate over
    returned,   \* direct get_nonce calls: <<clock read, nonce returned>>, in order
    tpc,        \* per thread: position inside get_nonce
    tlocal,     \* per thread: the local variable nonce of get_nonce
    tret,       \* per thread: the value get_nonce returned
    overlapped, \* whether the two threads' get_nonce calls overlapped in time
    arg,        \* the pair string handed to format_pair
    formatted   \* the class format_pair was called on, and its outcome

vars == <<cls, creds, clock, _nonce, headers, sent, nonces, call, result, todo,
          returned, tpc, tlocal, tret, overlapped, arg, formatted>>

clientVars == <<cls, creds, clock, _nonce, headers, sent, nonces, call, result, todo>>
threadVars == <<tpc, tlocal, tret, overlapped>>
pairVars   == <<arg, formatted>>

(***************************************************************************)
(* Bounds of the model.                                                    *)
(***************************************************************************)
MaxPieces   == 4   \* a pair string is made of at most this many pieces
MaxClock    == 2   \* clock readings are 0 .. MaxClock
MaxCalls    == 4   \* direct get_nonce calls recorded in `returned`
MaxRequests == 3   \* private requests recorded in `nonces`
MaxOrders   == 2   \* open orders the venue lists

(***************************************************************************)
(* Outcomes.                                                               *)
(***************************************************************************)
Return(v)      == [kind |-> "return", error |-> "", msg |-> "", value |-> v]
RaiseMsg(e, m) == [kind |-> "raise", error |-> e, msg |-> m, value |-> <<>>]
Raise(e)       == RaiseMsg(e, "")
NoCall         == [kind |-> "none", error |-> "", msg |-> "", value |-> <<>>]
Running        == [kind |-> "running", error |-> "", msg |-> "", value |-> <<>>]

(***************************************************************************)
(* Python str methods, on sequences of characters.                         *)
(***************************************************************************)
UpperChars == <<"B", "T", "C", "E", "H", "L", "U", "S", "D">>
LowerChars == <<"b", "t", "c", "e", "h", "l", "u", "s", "d">>

IsUpper(c) == \E i \in 1..Len(UpperChars) : UpperChars[i] = c
IsLower(c) == \E i \in 1..Len(LowerChars) : LowerChars[i] = c

\* str.lower() on one character: an uppercase letter becomes its lowercase
\* letter, every other character stays.
CharLower(c) ==
    IF IsUpper(c)
    THEN LowerChars[CHOOSE i \in 1..Len(UpperChars) : UpperChars[i] = c]
    ELSE c

\* str.upper() on one character
CharUpper(c) ==
    IF IsLower(c)
    THEN UpperChars[CHOOSE i \in 1..Len(LowerChars) : LowerChars[i] = c]
    ELSE c

\* str.upper()
StrUpper(s) == [i \in 1..Len(s) |-> CharUpper(s[i])]

\* str.lower()
StrLower(s) == [i \in 1..Len(s) |-> CharLower(s[i])]

\* str.islower(): at least one cased character and no uppercase character.
StrIsLower(s) ==
    /\ \E i \in 1..Len(s) : IsLower(s[i]) \/ IsUpper(s[i])
    /\ \A i \in 1..Len(s) : ~IsUpper(s[i])

\* str.replace(old, new) for one-character old and new.
StrReplace(s, old, new) == [i \in 1..Len(s) |-> IF s[i] = old THEN new ELSE s[i]]

\* `c in s` for a one-character c.
StrContains(s, c) == \E i \in 1..Len(s) : s[i] = c

\* str.split(sep) for a one-character sep: the parts between the separators,
\* empty parts included; k separators give k + 1 parts.
RECURSIVE StrSplit(_, _)
StrSplit(s, sep) ==
    IF ~StrContains(s, sep)
    THEN <<s>>
    ELSE LET i == CHOOSE k \in 1..Len(s) :
                      s[k] = sep /\ \A j \in 1..(k - 1) : s[j] # sep
         IN  <<SubSeq(s, 1, i - 1)>> \o StrSplit(SubSeq(s, i + 1, Len(s)), sep)

(***************************************************************************)
(* Class attributes of Bittrex.                                            *)
(***************************************************************************)
delimiter == "-"
btc  == <<"b", "t", "c">>
eth  == <<"e", "t", "h">>
usdt == <<"u", "s", "d", "t">>
ltc  == <<"l", "t", "c">>
base_currencies == <<btc, eth, usdt>>

\* `x in lst` for a list
InList(x, lst) == \E i \in 1..Len(lst) : lst[i] = x

(***************************************************************************)
(* Bittrex.format_pair                                                     *)
(***************************************************************************)
\* the test of islower() the wrong way round
Bittrex_format_pair_inverted(pair) ==
    LET p == StrReplace(pair, "_", delimiter)
    IN  IF StrIsLower(p) THEN StrLower(p) ELSE p

Bittrex_format_pair(pair) ==
    LET p == StrReplace(pair, "_", delimiter)
    IN  IF ~StrIsLower(p) THEN StrLower(p) ELSE p

(***************************************************************************)
(* BittrexNormalized.format_pair: its outcome, a returned string or the    *)
(* exception raised.  `quote, base = market_pair.split('-')` raises        *)
(* ValueError unless split() gives exactly two parts.                      *)
(***************************************************************************)
BittrexNormalized_format_pair(market_pair) ==
    LET mp    == StrLower(market_pair)
        parts == StrSplit(mp, "-")
    IN  IF ~StrContains(mp, "-") THEN Raise("InvalidDelimiterError")
        ELSE IF Len(parts) # 2 THEN Raise("ValueError")
        ELSE LET quote == parts[1]
                 base  == parts[2]
             IN  IF ~InList(base, base_currencies)
                 THEN Raise("InvalidBaseCurrencyError")
                 ELSE Return(base \o <<"-">> \o quote)

\* format_pair as `self.format_pair` dispatches it on an instance of class c
format_pair(c, pair) ==
    IF c = "BittrexNormalized"
    THEN BittrexNormalized_format_pair(pair)
    ELSE Return(Bittrex_format_pair(pair))

(***************************************************************************)
(* Pair strings given to format_pair: every concatenation of at most       *)
(* MaxPieces pieces (symbols in several letter cases, a symbol with no     *)
(* cased character, and the two delimiters).                               *)
(***************************************************************************)
Pieces ==
    { btc, <<"B", "T", "C">>, <<"E", "t", "h">>, usdt, <<"L", "T", "C">>, ltc,
      <<"1">>, <<"-">>, <<"_">> }

RECURSIVE Concats(_)
Concats(n) ==
    IF n = 0 THEN { <<>> }
    ELSE LET shorter == Concats(n - 1)
         IN  shorter \cup { s \o p : s \in shorter, p \in Pieces }

PairStrings == Concats(MaxPieces)

(***************************************************************************)
(* The initial state: a freshly constructed client.                        *)
(***************************************************************************)
\* an attribute or dict entry is <<>> while absent and <<v>> once set to v
NoAttr == <<>>
NoSign == <<>>

\* the record of a call: the client object, the operation and its arguments
Call(client, op, pair, depth) ==
    [client |-> client, op |-> op, pair |-> pair, depth |-> depth, orders |-> <<>>]
NoOp == Call("none", "none", <<>>, 0)

ClientInit ==
    /\ cls \in {"Bittrex", "BittrexNormalized"}
    /\ creds \in BOOLEAN
    /\ clock \in 0..MaxClock
    /\ _nonce = NoAttr
    /\ headers = NoSign
    /\ sent = <<>>
    /\ nonces = <<>>
    /\ call = NoOp
    /\ result = NoCall
    /\ todo = <<>>

ThreadInit ==
    /\ tpc = [t \in {1, 2} |-> "idle"]
    /\ tlocal = [t \in {1, 2} |-> [nonce |-> 0, now |-> 0]]
    /\ tret = [t \in {1, 2} |-> 0]
    /\ overlapped = FALSE

PairInit ==
    /\ arg = <<>>
    /\ formatted = [cls |-> "none", outcome |-> NoCall]

(***************************************************************************)
(* format_pair as a pure function: Init draws the pair string, the actions *)
(* apply the two classes' format_pair to it.                               *)
(***************************************************************************)
InitPair ==
    /\ ClientInit /\ cls = "Bittrex" /\ creds /\ clock = 0
    /\ ThreadInit
    /\ returned = <<>>
    /\ arg \in PairStrings
    /\ formatted = [cls |-> "none", outcome |-> NoCall]

CallBittrexFormatPair ==
    /\ formatted' = [cls |-> "Bittrex", outcome |-> format_pair("Bittrex", arg)]
    /\ UNCHANGED <<clientVars, threadVars, returned, arg>>

CallNormalizedFormatPair ==
    /\ formatted' = [cls |-> "BittrexNormalized",
                     outcome |-> format_pair("BittrexNormalized", arg)]
    /\ UNCHANGED <<clientVars, threadVars, returned, arg>>

NextPair == CallBittrexFormatPair \/ CallNormalizedFormatPair

SpecPair == InitPair /\ [][NextPair]_vars

(***************************************************************************)
(* Bittrex.get_nonce                                                       *)
(***************************************************************************)
Max(a, b) == IF a >= b THEN a ELSE b

\* getattr(self, '_nonce', 0)
getattr_nonce(attr) == IF attr = NoAttr THEN 0 ELSE attr[1]

\* `if nonce: nonce += 1`: an int is true when it is not 0
increment(nonce) == IF nonce # 0 THEN nonce + 1 ELSE nonce

\* the value get_nonce stores in self._nonce and returns, when the attribute
\* holds attr and int(time.time()) reads now
get_nonce(attr, now) == Max(now, increment(getattr_nonce(attr)))

\* the wall clock moves, forwards or backwards, between two statements
Tick ==
    /\ clock' \in (0..MaxClock) \ {clock}
    /\ UNCHANGED <<cls, creds, _nonce, headers, sent, nonces, call, result, todo,
                   returned, threadVars, pairVars>>

(***************************************************************************)
(* Sequential get_nonce calls on one instance.                             *)
(***************************************************************************)
InitNonce ==
    /\ ClientInit /\ cls = "Bittrex" /\ creds
    /\ ThreadInit /\ PairInit
    /\ returned = <<>>

CallGetNonce ==
    /\ Len(returned) < MaxCalls
    /\ _nonce' = <<get_nonce(_nonce, clock)>>
    /\ returned' = Append(returned, <<clock, _nonce'[1]>>)
    /\ UNCHANGED <<cls, creds, clock, headers, sent, nonces, call, result, todo,
                   threadVars, pairVars>>

NextNonce == Tick \/ CallGetNonce

SpecNonce == InitNonce /\ [][NextNonce]_vars

(***************************************************************************)
(* Two threads call get_nonce once each on the same instance.  The         *)
(* statements of get_nonce are the steps: the read of self._nonce with the *)
(* increment of the local, the clock read, the write of self._nonce, and   *)
(* `return self._nonce`, which reads the attribute again.                  *)
(***************************************************************************)
Threads == {1, 2}
Other(t) == IF t = 1 THEN 2 ELSE 1
InCall(t) == tpc[t] \in {"time", "write", "return"}

InitThreads ==
    /\ ClientInit /\ cls = "Bittrex" /\ creds
    /\ ThreadInit /\ PairInit
    /\ returned = <<>>

\* nonce = getattr(self, '_nonce', 0); if nonce: nonce += 1
TRead(t) ==
    /\ tpc[t] = "idle"
    /\ tlocal' = [tlocal EXCEPT ![t].nonce = increment(getattr_nonce(_nonce))]
    /\ tpc' = [tpc EXCEPT ![t] = "time"]
    /\ overlapped' = (overlapped \/ InCall(Other(t)))
    /\ UNCHANGED <<clientVars, returned, tret, pairVars>>

\* int(time.time())
TTime(t) ==
    /\ tpc[t] = "time"
    /\ tlocal' = [tlocal EXCEPT ![t].now = clock]
    /\ tpc' = [tpc EXCEPT ![t] = "write"]
    /\ UNCHANGED <<clientVars, returned, tret, overlapped, pairVars>>

\* self._nonce = max(..., nonce)
TWrite(t) ==
    /\ tpc[t] = "write"
    /\ _nonce' = <<Max(tlocal[t].now, tlocal[t].nonce)>>
    /\ tpc' = [tpc EXCEPT ![t] = "return"]
    /\ UNCHANGED <<cls, creds, clock, headers, sent, nonces, call, result, todo,
                   returned, tlocal, tret, overlapped, pairVars>>

\* return self._nonce
TReturn(t) ==
    /\ tpc[t] = "return"
    /\ tret' = [tret EXCEPT ![t] = _nonce[1]]
    /\ tpc' = [tpc EXCEPT ![t] = "done"]
    /\ UNCHANGED <<clientVars, returned, tlocal, overlapped, pairVars>>

NextThreads ==
    \/ Tick
    \/ \E t \in Threads : TRead(t) \/ TTime(t) \/ TWrite(t) \/ TReturn(t)

SpecThreads == InitThreads /\ [][NextThreads]_vars

(***************************************************************************)
(* The HTTP transport (requests.Session.get) and the venue behind it.      *)
(* A response is what get() does: it raises exc (Timeout, ConnectionError: *)
(* RequestExceptions that are not HTTPError), or it gives a response with  *)
(* a status and a body, which is JSON or not; a JSON body of Bittrex is    *)
(* the envelope {success, message, result}.                                *)
(***************************************************************************)
Response(exc, status, json, success, payload) ==
    [exc |-> exc, status |-> status, json |-> json, success |-> success,
     message |-> IF json /\ ~success THEN "venue message" ELSE "", result |-> payload]

\* Python values: None, and a value of a venue payload with its shape
PyNone      == [t |-> "None", v |-> <<>>]
PyValue(shape, v) == [t |-> shape, v |-> v]

\* the answers that carry no payload: get() raises, a failure envelope with
\* status 200 or 500, and a status 500 with a body that is not JSON
Failures ==
    { Response("Timeout", 0, FALSE, FALSE, PyNone),
      Response("ConnectionError", 0, FALSE, FALSE, PyNone),
      Response("", 200, TRUE, FALSE, PyNone),
      Response("", 500, TRUE, FALSE, PyNone),
      Response("", 500, FALSE, FALSE, PyNone) }

\* what the venue can answer when a success envelope would carry one of payloads
Responses(payloads) ==
    Failures \cup { Response("", 200, TRUE, TRUE, payload) : payload \in payloads }

\* an issued request: where it went, its query string, the apisign header it
\* carried (the headers dict as it was), and what came back
Request(base, query, resp) ==
    [base |-> base, query |-> query, apisign |-> headers, response |-> resp]

\* get the value of key k in a list of <<key, value>> pairs (<<>> when absent)
Lookup(query, k) ==
    IF \E i \in 1..Len(query) : query[i][1] = k
    THEN <<query[CHOOSE i \in 1..Len(query) : query[i][1] = k][2]>>
    ELSE <<>>

(***************************************************************************)
(* Bittrex.api with Bittrex._verify_response: the outcome of the call once *)
(* get() has answered resp.  An HTTPError of raise_for_status() is printed *)
(* and execution goes on to _verify_response; any other exception of get() *)
(* propagates; response.json() of a body that is not JSON raises.          *)
(***************************************************************************)
_verify_response(resp) ==
    IF ~resp.json THEN Raise("JSONDecodeError")
    ELSE IF ~resp.success THEN RaiseMsg("APIError", resp.message)
    ELSE Return(PyNone)

api_outcome(resp) ==
    IF resp.exc # "" THEN Raise(resp.exc)
    ELSE IF _verify_response(resp).kind = "raise" THEN _verify_response(resp)
    ELSE Return(PyValue("envelope", resp.result))

\* api(url, params): the request issued and the outcome
api(base, params, resp) ==
    [sent |-> <<Request(base, params, resp)>>, result |-> api_outcome(resp)]

\* the effect of a call that raises before any request
Failed(outcome) == [sent |-> <<>>, result |-> outcome]

\* `...["result"]` on the outcome of api() or private_api()
Result(o) == IF o.kind = "return" THEN Return(o.value.v) ELSE o

\* a further step on a returned payload: the new shape of the value
Reshape(o, shape) == IF o.kind = "return" THEN Return(PyValue(shape, o.value.v)) ELSE o

(***************************************************************************)
(* Public operations of Bittrex and BittrexNormalized on an instance of    *)
(* class c: each gives the requests issued and the outcome.                *)
(***************************************************************************)
MaxTradeHistory == 200
MaxOrderDepth   == 50

\* get_markets of class Bittrex
Bittrex_get_markets(resp) ==
    LET a == api("public/getmarkets", <<>>, resp)
        r == Result(a.result)
    IN  [sent |-> a.sent,
         result |-> IF r.kind = "return"
                    THEN Return(PyValue("list",
                             [i \in 1..Len(r.value.v) |-> StrLower(r.value.v[i])]))
                    ELSE r]

\* get_markets of class BittrexNormalized
BittrexNormalized_get_markets(resp) ==
    LET up == Bittrex_get_markets(resp)
        m  == up.result.value.v
    IN  IF up.result.kind = "raise" THEN up
        ELSE IF \E i \in 1..Len(m) : Len(StrSplit(m[i], "-")) # 2
        THEN [sent |-> up.sent, result |-> Raise("ValueError")]
        ELSE [sent |-> up.sent,
              result |-> Return(PyValue("list",
                  [i \in 1..Len(m) |->
                      LET base  == StrSplit(m[i], "-")[1]
                          quote == StrSplit(m[i], "-")[2]
                      IN  quote \o <<"-">> \o base]))]

get_markets(c, resp) ==
    IF c = "BittrexNormalized"
    THEN BittrexNormalized_get_markets(resp)
    ELSE Bittrex_get_markets(resp)

\* the elements of a list, as a set
Elems(lst) == {lst[i] : i \in 1..Len(lst)}

get_base_currencies(c, resp) ==
    LET m == get_markets(c, resp)
        bases == {StrSplit(i, "-")[1] : i \in Elems(m.result.value.v)}
    IN  IF m.result.kind = "raise" THEN m
        ELSE IF bases # Elems(base_currencies)
        THEN [sent |-> m.sent,
              result |-> [kind |-> "raise", error |-> "OutdatedBaseCurrenciesError",
                          msg |-> "Update the hardcoded base currency clist!",
                          value |-> [actual |-> bases, hardcoded |-> base_currencies]]]
        ELSE [sent |-> m.sent, result |-> Return(PyNone)]

get_summaries(resp) ==
    LET a == api("public/getmarketsummaries", <<>>, resp)
    IN  [sent |-> a.sent, result |-> Result(a.result)]

\* a call of api() whose market parameter is self.format_pair(pair)
market_api(c, base, pair, more, resp) ==
    LET m == format_pair(c, pair)
    IN  IF m.kind = "raise" THEN Failed(m)
        ELSE LET a == api(base, <<<<"market", m.value>>>> \o more, resp)
             IN  [sent |-> a.sent, result |-> Result(a.result)]

get_market_ticker(c, pair, resp) ==
    LET up == market_api(c, "public/getticker", pair, <<>>, resp)
    IN  IF c = "BittrexNormalized"
        THEN [sent |-> up.sent, result |-> Reshape(up.result, "lowercase keys")]
        ELSE up

\* the test of the depth against the venue's maximum, and its off-by-one variant
exceeds_inclusive(depth, maximum) == depth >= maximum

exceeds(depth, maximum) == depth > maximum

\* lst[-depth:]: the last depth items; all of them when depth is 0 or at least
\* the length; for a negative depth the items from index -depth on
LastItems(lst, depth) ==
    IF depth = 0 \/ depth >= Len(lst) THEN lst
    ELSE IF depth < 0 THEN SubSeq(lst, 1 - depth, Len(lst))
    ELSE SubSeq(lst, Len(lst) - depth + 1, Len(lst))

Bittrex_get_market_trade_history(c, pair, depth, resp) ==
    IF exceeds(depth, MaxTradeHistory)
    THEN Failed(RaiseMsg("ValueError",
                         "Bittrex API allows maximum history of last 200 trades."))
    ELSE LET up == market_api(c, "public/getmarkethistory", pair, <<>>, resp)
         IN  IF up.result.kind = "raise" THEN up
             ELSE [sent |-> up.sent,
                   result |-> Return(PyValue("list",
                                  LastItems(up.result.value.v, depth)))]

\* BittrexNormalized.get_market_trade_history(market) takes no depth
get_market_trade_history(c, pair, depth, resp) ==
    IF c = "BittrexNormalized"
    THEN LET up == Bittrex_get_market_trade_history(c, pair, MaxTradeHistory, resp)
         IN  [sent |-> up.sent, result |-> Reshape(up.result, "normalized trades")]
    ELSE Bittrex_get_market_trade_history(c, pair, depth, resp)

Bittrex_get_market_orders(c, pair, depth, resp) ==
    IF exceeds(depth, MaxOrderDepth)
    THEN Failed(RaiseMsg("ValueError",
                         "Bittrex API allows maximum depth of last 50 offers."))
    ELSE market_api(c, "public/getorderbook", pair,
                    <<<<"type", "both">>, <<"depth", depth>>>>, resp)

\* an order book with keys buy and sell becomes one with keys bids and asks
get_market_orders(c, pair, depth, resp) ==
    IF c = "BittrexNormalized"
    THEN LET up == Bittrex_get_market_orders(c, pair, depth, resp)
         IN  [sent |-> up.sent, result |-> Reshape(up.result, "bids asks")]
    ELSE Bittrex_get_market_orders(c, pair, depth, resp)

\* get_market_depth formats the pair and hands the formatted pair to
\* self.get_market_orders, which formats it again; it then reads the keys
\* "buy" and "sell" of what get_market_orders returned.
get_market_depth(c, pair, resp) ==
    LET m == format_pair(c, pair)
    IN  IF m.kind = "raise" THEN Failed(m)
        ELSE LET ob == get_market_orders(c, m.value, MaxOrderDepth, resp)
             IN  IF ob.result.kind = "raise" THEN ob
                 ELSE IF ob.result.value.t = "bids asks"
                 THEN [sent |-> ob.sent, result |-> Raise("KeyError")]
                 ELSE [sent |-> ob.sent, result |-> Reshape(ob.result, "depth")]

\* `...["result"][0]`
get_market_summary(c, pair, resp) ==
    LET up == market_api(c, "public/getmarketsummary", pair, <<>>, resp)
    IN  [sent |-> up.sent, result |-> Reshape(up.result, "summary")]

\* get_market_spread formats the pair and hands the formatted pair to
\* self.get_market_summary, which formats it again.
get_market_spread(c, pair, resp) ==
    LET m == format_pair(c, pair)
    IN  IF m.kind = "raise" THEN Failed(m)
        ELSE LET d == get_market_summary(c, m.value, resp)
             IN  [sent |-> d.sent, result |-> Reshape(d.result, "spread")]

(***************************************************************************)
(* CoinMarketCap.api, get_ticker, get_global.  A status other than 200     *)
(* fails the assert, whose message reads result.json(); a                 *)
(* RequestException of get() is caught and printed, and api() then returns *)
(* None.                                                                   *)
(***************************************************************************)
CoinMarketCap_api(base, resp) ==
    [sent |-> <<[base |-> base, query |-> <<>>, apisign |-> NoSign, response |-> resp]>>,
     result |-> IF resp.exc # "" THEN Return(PyNone)
                ELSE IF resp.status # 200
                THEN IF resp.json THEN Raise("AssertionError")
                     ELSE Raise("JSONDecodeError")
                ELSE Return(PyValue("json", resp.result.v))]

\* `self.api(...)[0]`
CoinMarketCap_get_ticker(resp) ==
    LET a == CoinMarketCap_api("ticker/", resp)
    IN  [sent |-> a.sent,
         result |-> IF a.result.kind = "raise" THEN a.result
                    ELSE IF a.result.value = PyNone THEN Raise("TypeError")
                    ELSE Reshape(a.result, "ticker")]

CoinMarketCap_get_global(resp) == CoinMarketCap_api("global/", resp)

(***************************************************************************)
(* What the venue lists and what callers pass.                             *)
(***************************************************************************)
BTC_LTC  == <<"B", "T", "C", "-", "L", "T", "C">>
ETH_LTC  == <<"E", "T", "H", "-", "L", "T", "C">>
USDT_BTC == <<"U", "S", "D", "T", "-", "B", "T", "C">>
USD_BTC  == <<"U", "S", "D", "-", "B", "T", "C">>

\* the MarketName of every market of the venue
MarketLists ==
    { <<BTC_LTC, ETH_LTC, USDT_BTC>>,
      <<BTC_LTC, ETH_LTC>>,
      <<BTC_LTC, ETH_LTC, USDT_BTC, USD_BTC>> }

\* pair strings callers pass to the operations of a client
ClientPairs ==
    { ltc \o <<"-">> \o btc,
      eth \o <<"-">> \o btc,
      <<"L", "T", "C", "-", "B", "T", "C">>,
      btc \o <<"_">> \o ltc,
      btc \o <<"-">> \o ltc,
      ltc \o btc,
      ltc \o <<"-">> \o eth \o <<"-">> \o btc }

Depths(maximum) == {1, maximum, maximum + 1}

Payload == PyValue("payload", <<"item1", "item2">>)

(***************************************************************************)
(* The calls of the public operations on the instance.                     *)
(***************************************************************************)
Idle == result.kind # "running"

\* a public call: it issues requests and ends; nothing else of the client changes
Public(c, eff) ==
    /\ Idle
    /\ call' = c
    /\ sent' = eff.sent
    /\ result' = eff.result
    /\ UNCHANGED <<cls, creds, clock, _nonce, headers, nonces, todo,
                   returned, threadVars, pairVars>>

CallGetMarkets ==
    \E resp \in Responses({PyValue("list", ms) : ms \in MarketLists}) :
        Public(Call(cls, "get_markets", <<>>, 0), get_markets(cls, resp))

CallGetBaseCurrencies ==
    \E resp \in Responses({PyValue("list", ms) : ms \in MarketLists}) :
        Public(Call(cls, "get_base_currencies", <<>>, 0), get_base_currencies(cls, resp))

CallGetSummaries ==
    \E resp \in Responses({Payload}) :
        Public(Call(cls, "get_summaries", <<>>, 0), get_summaries(resp))

CallGetMarketTicker ==
    \E pair \in ClientPairs : \E resp \in Responses({Payload}) :
        Public(Call(cls, "get_market_ticker", pair, 0),
               get_market_ticker(cls, pair, resp))

CallGetMarketTradeHistory(pairs) ==
    \E pair \in pairs : \E resp \in Responses({Payload}) :
        \E depth \in IF cls = "BittrexNormalized" THEN {MaxTradeHistory}
                     ELSE Depths(MaxTradeHistory) :
            Public(Call(cls, "get_market_trade_history", pair, depth),
                   get_market_trade_history(cls, pair, depth, resp))

CallGetMarketOrders(pairs) ==
    \E pair \in pairs : \E resp \in Responses({Payload}) :
        \E depth \in Depths(MaxOrderDepth) :
            Public(Call(cls, "get_market_orders", pair, depth),
                   get_market_orders(cls, pair, depth, resp))

CallGetMarketDepth ==
    \E pair \in ClientPairs : \E resp \in Responses({Payload}) :
        Public(Call(cls, "get_market_depth", pair, 0),
               get_market_depth(cls, pair, resp))

CallGetMarketSummary ==
    \E pair \in ClientPairs : \E resp \in Responses({Payload}) :
        Public(Call(cls, "get_market_summary", pair, 0),
               get_market_summary(cls, pair, resp))

CallGetMarketSpread ==
    \E pair \in ClientPairs : \E resp \in Responses({Payload}) :
        Public(Call(cls, "get_market_spread", pair, 0),
               get_market_spread(cls, pair, resp))

CallCoinMarketCapApi ==
    \E resp \in Responses({Payload}) :
        Public(Call("CoinMarketCap", "api", <<>>, 0), CoinMarketCap_api("ticker/", resp))

CallCoinMarketCapGetTicker ==
    \E resp \in Responses({Payload}) :
        Public(Call("CoinMarketCap", "get_ticker", <<>>, 0),
               CoinMarketCap_get_ticker(resp))

CallCoinMarketCapGetGlobal ==
    \E resp \in Responses({Payload}) :
        Public(Call("CoinMarketCap", "get_global", <<>>, 0),
               CoinMarketCap_get_global(resp))

InitPublic ==
    /\ ClientInit /\ creds /\ clock = 0
    /\ ThreadInit /\ PairInit
    /\ returned = <<>>

NextPublic ==
    \/ CallGetMarkets
    \/ CallGetBaseCurrencies
    \/ CallGetSummaries
    \/ CallGetMarketTicker
    \/ CallGetMarketTradeHistory(ClientPairs)
    \/ CallGetMarketOrders(ClientPairs)
    \/ CallGetMarketDepth
    \/ CallGetMarketSummary
    \/ CallGetMarketSpread
    \/ CallCoinMarketCapApi
    \/ CallCoinMarketCapGetTicker
    \/ CallCoinMarketCapGetGlobal

SpecPublic == InitPublic /\ [][NextPublic]_vars

(***************************************************************************)
(* Bittrex.private_api with Bittrex._generate_signature.  The signature is *)
(* HMAC-SHA512 keyed by the secret over the url with its query string; it  *)
(* is modelled as the keyed hash of an ideal MAC: the record of the key    *)
(* and the message, so that two signatures are equal exactly when key and  *)
(* message are.                                                            *)
(***************************************************************************)
apikey == "apikey-of-the-instance"
secret == "secret-of-the-instance"

_generate_signature(key, url) == [alg |-> "hmac-sha512", key |-> key, msg |-> url]

\* url + "?" + urlencode(params): the base and the parameters in dict order
Url(base, params) == [base |-> base, query |-> params]

\* private_api(url, params) on the instance: the new _nonce and headers, the
\* request issued and the outcome.  Without credentials self.apikey is no
\* attribute, and evaluating it raises before get_nonce is called.
private_api(base, params, resp) ==
    IF ~creds
    THEN [nonce |-> _nonce, headers |-> headers, sent |-> <<>>, nonces |-> <<>>,
          result |-> Raise("AttributeError")]
    ELSE LET n     == get_nonce(_nonce, clock)
             query == params \o <<<<"apikey", apikey>>, <<"nonce", n>>>>
             sign  == _generate_signature(secret, Url(base, query))
         IN  [nonce |-> <<n>>, headers |-> <<sign>>, nonces |-> <<n>>,
              sent |-> <<[base |-> base, query |-> query, apisign |-> <<sign>>,
                          response |-> resp]>>,
              result |-> api_outcome(resp)]

\* a call that raises while it builds its parameters
NotSent(outcome) ==
    [nonce |-> _nonce, headers |-> headers, sent |-> <<>>, nonces |-> <<>>,
     result |-> outcome]

\* private_api with parameters that hold a formatted pair or coin
private_api_formatted(base, formattedArg, key, more, resp) ==
    IF formattedArg.kind = "raise" THEN NotSent(formattedArg)
    ELSE private_api(base, <<<<key, formattedArg.value>>>> \o more, resp)

\* what the operation does with the outcome of private_api
Post(eff, shape) ==
    [eff EXCEPT !.result = IF shape = "envelope" THEN eff.result
                           ELSE Reshape(Result(eff.result), shape)]

buy_limit(c, pair, rate, amount, resp) ==
    private_api_formatted("market/buylimit", format_pair(c, pair), "market",
                          <<<<"quantity", amount>>, <<"rate", rate>>>>, resp)

sell_limit(c, pair, rate, amount, resp) ==
    private_api_formatted("market/selllimit", format_pair(c, pair), "market",
                          <<<<"quantity", amount>>, <<"rate", rate>>>>, resp)

cancel_order(order_id, resp) ==
    Post(private_api("market/cancel", <<<<"uuid", order_id>>>>, resp), "result")

\* market is <<>> for None and <<m>> for a market m
get_open_orders(c, market, resp) ==
    Post(IF market # <<>>
         THEN private_api_formatted("market/getopenorders", format_pair(c, market[1]),
                                    "market", <<>>, resp)
         ELSE private_api("market/getopenorders", <<>>, resp),
         "list")

get_order_history(resp) ==
    Post(private_api("account/getorderhistory", <<>>, resp), "result")

\* `[i for i in balances if i["Balance"] > 0]`
get_balances(resp) ==
    Post(private_api("account/getbalances", <<>>, resp), "positive balances")

\* `addr["Address"]`
get_deposit_address(coin, resp) ==
    Post(private_api("account/getdepositaddress", <<<<"currency", StrUpper(coin)>>>>, resp),
         "address")

withdraw(coin, amount, address, resp) ==
    private_api("account/withdraw",
                <<<<"currency", StrUpper(coin)>>, <<"quantity", amount>>,
                  <<"address", address>>>>, resp)

get_order(order_id, resp) ==
    Post(private_api("account/getorder", <<<<"uuid", order_id>>>>, resp), "result")

\* coin is <<>> for None and <<c>> for a coin c
get_withdraw_history(c, coin, resp) ==
    Post(IF coin # <<>>
         THEN private_api_formatted("account/getwithdrawalhistory",
                                    format_pair(c, coin[1]), "currency", <<>>, resp)
         ELSE private_api("account/getwithdrawalhistory", <<>>, resp),
         "result")

get_deposit_history(c, coin, resp) ==
    Post(IF coin # <<>>
         THEN private_api_formatted("account/getdeposithistory",
                                    format_pair(c, coin[1]), "currency", <<>>, resp)
         ELSE private_api("account/getdeposithistory", <<>>, resp),
         "result")

(***************************************************************************)
(* The calls of the private operations on the instance.                    *)
(***************************************************************************)
OrderIds == {"order1", "order2"}

\* the open orders the venue lists: the OrderUuid of each, in its order
OrderLists == UNION {[1..n -> OrderIds] : n \in 0..MaxOrders}

\* the order ids callers pass
CallerOrderIds == {"order1"}

PrivatePairs == { ltc \o <<"-">> \o btc, <<"B", "T", "C", "_">> \o ltc }
Coins == { btc }

\* a private request can still be recorded within the bounds
CanSend == Len(nonces) < MaxRequests

\* a private call that is one request at most
Private(c, eff) ==
    /\ Idle
    /\ CanSend
    /\ call' = c
    /\ _nonce' = eff.nonce
    /\ headers' = eff.headers
    /\ sent' = eff.sent
    /\ nonces' = nonces \o eff.nonces
    /\ result' = eff.result
    /\ UNCHANGED <<cls, creds, clock, todo, returned, threadVars, pairVars>>

CallBuyLimit ==
    \E pair \in PrivatePairs : \E resp \in Responses({Payload}) :
        Private(Call(cls, "buy_limit", pair, 0), buy_limit(cls, pair, 1, 1, resp))

CallSellLimit ==
    \E pair \in PrivatePairs : \E resp \in Responses({Payload}) :
        Private(Call(cls, "sell_limit", pair, 0), sell_limit(cls, pair, 1, 1, resp))

CallCancelOrder ==
    \E id \in CallerOrderIds : \E resp \in Responses({Payload}) :
        Private(Call(cls, "cancel_order", <<>>, 0), cancel_order(id, resp))

CallGetOpenOrders ==
    \E market \in {<<>>} \cup {<<p>> : p \in PrivatePairs} :
        \E resp \in Responses({PyValue("list", os) : os \in OrderLists}) :
            Private(Call(cls, "get_open_orders", <<>>, 0),
                    get_open_orders(cls, market, resp))

CallGetOrderHistory ==
    \E resp \in Responses({Payload}) :
        Private(Call(cls, "get_order_history", <<>>, 0), get_order_history(resp))

CallGetBalances ==
    \E resp \in Responses({Payload}) :
        Private(Call(cls, "get_balances", <<>>, 0), get_balances(resp))

CallGetDepositAddress ==
    \E coin \in Coins : \E resp \in Responses({Payload}) :
        Private(Call(cls, "get_deposit_address", <<>>, 0),
                get_deposit_address(coin, resp))

CallWithdraw ==
    \E coin \in Coins : \E resp \in Responses({Payload}) :
        Private(Call(cls, "withdraw", <<>>, 0), withdraw(coin, 1, "address", resp))

CallGetOrder ==
    \E id \in CallerOrderIds : \E resp \in Responses({Payload}) :
        Private(Call(cls, "get_order", <<>>, 0), get_order(id, resp))

CallGetWithdrawHistory ==
    \E coin \in {<<>>} \cup {<<k>> : k \in Coins} : \E resp \in Responses({Payload}) :
        Private(Call(cls, "get_withdraw_history", <<>>, 0),
                get_withdraw_history(cls, coin, resp))

CallGetDepositHistory ==
    \E coin \in {<<>>} \cup {<<k>> : k \in Coins} : \E resp \in Responses({Payload}) :
        Private(Call(cls, "get_deposit_history", <<>>, 0),
                get_deposit_history(cls, coin, resp))

(***************************************************************************)
(* Bittrex.cancel_all_orders:                                              *)
(*     for order in self.get_open_orders():                                *)
(*         self.cancel_order(order['OrderUuid'])                           *)
(* The call of get_open_orders is one step and every pass of the loop is   *)
(* one step (the clock may move in between); no other call starts on the   *)
(* instance until the loop has ended or an exception has left it.          *)
(***************************************************************************)
\* the outcome of a pass of the loop, and the variant that goes on to the
\* next order when a cancel raised
loop_outcome_swallowing(outcome, rest) ==
    IF rest = <<>> THEN Return(PyNone) ELSE Running

loop_outcome(outcome, rest) ==
    IF outcome.kind = "raise" THEN outcome
    ELSE IF rest = <<>> THEN Return(PyNone)
    ELSE Running

CallCancelAllOrders ==
    /\ Idle
    /\ CanSend
    /\ \E resp \in Responses({PyValue("list", os) : os \in OrderLists}) :
        LET eff == get_open_orders(cls, <<>>, resp)
            listed == IF eff.result.kind = "return" THEN eff.result.value.v ELSE <<>>
        IN  /\ call' = [Call(cls, "cancel_all_orders", <<>>, 0) EXCEPT !.orders = listed]
            /\ _nonce' = eff.nonce
            /\ headers' = eff.headers
            /\ sent' = eff.sent
            /\ nonces' = nonces \o eff.nonces
            /\ todo' = listed
            /\ result' = IF eff.result.kind = "raise" THEN eff.result
                         ELSE loop_outcome(Return(PyNone), listed)
    /\ UNCHANGED <<cls, creds, clock, returned, threadVars, pairVars>>

CancelNextOrder ==
    /\ result.kind = "running"
    /\ call.op = "cancel_all_orders"
    /\ todo # <<>>
    /\ CanSend
    /\ \E resp \in Responses({Payload}) :
        LET eff == cancel_order(Head(todo), resp)
        IN  /\ _nonce' = eff.nonce
            /\ headers' = eff.headers
            /\ sent' = sent \o eff.sent
            /\ nonces' = nonces \o eff.nonces
            /\ todo' = Tail(todo)
            /\ result' = loop_outcome(eff.result, Tail(todo))
    /\ UNCHANGED <<cls, creds, clock, call, returned, threadVars, pairVars>>

(***************************************************************************)
(* One client instance and its private operations, under a clock that      *)
(* moves.                                                                  *)
(***************************************************************************)
Init ==
    /\ ClientInit
    /\ ThreadInit /\ PairInit
    /\ returned = <<>>

Next ==
    \/ Tick
    \/ CallBuyLimit
    \/ CallSellLimit
    \/ CallCancelOrder
    \/ CallGetOpenOrders
    \/ CallGetOrderHistory
    \/ CallGetBalances
    \/ CallGetDepositAddress
    \/ CallWithdraw
    \/ CallGetOrder
    \/ CallGetWithdrawHistory
    \/ CallGetDepositHistory

Spec == Init /\ [][Next]_vars

(***************************************************************************)
(* cancel_all_orders on one instance, under a clock that moves.            *)
(***************************************************************************)
NextCancel ==
    \/ Tick
    \/ CallCancelAllOrders
    \/ CancelNextOrder

SpecCancel == Init /\ [][NextCancel]_vars

(***************************************************************************)
(* The depth-limited operations on an instance whose nonce and headers a   *)
(* private operation changes, under a clock that moves.                    *)
(***************************************************************************)
NextDepth ==
    \/ Tick
    \/ CallGetBalances
    \/ CallGetMarketTradeHistory(PrivatePairs)
    \/ CallGetMarketOrders(PrivatePairs)

SpecDepth == Init /\ [][NextDepth]_vars

(***************************************************************************)
(* C1: in every sequence of sequential get_nonce calls each returned nonce *)
(* is at least the previous one, and when the clock read by a call does    *)
(* not exceed the previously returned nonce the new nonce is at least 1    *)
(* greater than the previous one.                                          *)
(***************************************************************************)
\* C1: returned nonces never decrease, and advance by at least 1 when the
\* clock read does not exceed the previous nonce
C1_NonceAdvances ==
    \A i \in 2..Len(returned) :
        /\ returned[i][2] >= returned[i - 1][2]
        /\ returned[i][1] <= returned[i - 1][2]
              => returned[i][2] >= returned[i - 1][2] + 1

\* two calls at a clock reading of 0 have both returned 0
C1_StuckAtZero ==
    /\ Len(returned) >= 2
    /\ returned[1] = <<0, 0>>
    /\ returned[2] = <<0, 0>>

\* what does hold: the returned nonces never decrease, and a call that finds
\* a nonzero nonce returns a greater one
C1_NonDecreasing ==
    \A i \in 2..Len(returned) :
        /\ returned[i][2] >= returned[i - 1][2]
        /\ returned[i - 1][2] # 0 => returned[i][2] > returned[i - 1][2]

(***************************************************************************)
(* C10: two get_nonce calls of two threads that do not overlap return two  *)
(* distinct nonces (and calls that overlap can return the same nonce).     *)
(***************************************************************************)
BothDone == tpc[1] = "done" /\ tpc[2] = "done"

\* C10: two get_nonce calls that do not overlap return distinct nonces
C10_SequentialDistinct == (BothDone /\ ~overlapped) => tret[1] # tret[2]

\* overlapping calls have returned the same nonce, a nonzero one
C10_DuplicateByInterleaving ==
    BothDone /\ overlapped /\ tret[1] = tret[2] /\ tret[1] # 0

(***************************************************************************)
(* C5: BittrexNormalized.format_pair ends in exactly one of three ways:    *)
(* InvalidDelimiterError when the string holds no '-';                     *)
(* InvalidBaseCurrencyError when the lowercased symbol after the delimiter *)
(* is not a base currency; otherwise it returns the lowercase string       *)
(* base + '-' + quote.  No other error or result occurs.                   *)
(***************************************************************************)
Count(s, c) == Cardinality({i \in 1..Len(s) : s[i] = c})

\* the part of s after its last '-'
AfterLastDash(s) ==
    LET i == CHOOSE k \in 1..Len(s) : s[k] = "-" /\ \A j \in (k + 1)..Len(s) : s[j] # "-"
    IN  SubSeq(s, i + 1, Len(s))

BeforeLastDash(s) ==
    LET i == CHOOSE k \in 1..Len(s) : s[k] = "-" /\ \A j \in (k + 1)..Len(s) : s[j] # "-"
    IN  SubSeq(s, 1, i - 1)

\* C5: BittrexNormalized.format_pair ends in exactly one of the three outcomes
C5_ThreeOutcomes ==
    formatted.cls = "BittrexNormalized" =>
        LET o == formatted.outcome
            lowered == StrLower(arg)
        IN  IF Count(arg, "-") = 0
            THEN o = Raise("InvalidDelimiterError")
            ELSE IF AfterLastDash(lowered) \notin {btc, eth, usdt}
            THEN o = Raise("InvalidBaseCurrencyError")
            ELSE o = Return(AfterLastDash(lowered) \o <<"-">> \o BeforeLastDash(lowered))

\* a pair string with two delimiters has been formatted
C5_TwoDelimiters ==
    /\ formatted.cls = "BittrexNormalized"
    /\ arg = ltc \o <<"-">> \o btc \o <<"-">>
    /\ formatted.outcome = Raise("ValueError")

\* what does hold: the three outcomes for strings with at most one '-'
C5_AtMostOneDelimiter ==
    (formatted.cls = "BittrexNormalized" /\ Count(arg, "-") <= 1) => C5_ThreeOutcomes

(***************************************************************************)
(* C8: for a pair string of two symbols joined by '_' or '-', in any       *)
(* letter case, Bittrex.format_pair returns the all-lowercase string with  *)
(* the two symbols in the same order joined by '-', and format_pair of     *)
(* that result is the result itself.                                       *)
(***************************************************************************)
IsDelim(c) == c \in {"_", "-"}

\* two nonempty symbols joined by one delimiter
IsSymbolPair(s) ==
    /\ Cardinality({i \in 1..Len(s) : IsDelim(s[i])}) = 1
    /\ Len(s) >= 3
    /\ ~IsDelim(s[1]) /\ ~IsDelim(s[Len(s)])

\* the same letter, whatever the case
SameLetter(a, b) ==
    \/ a = b
    \/ \E k \in 1..Len(UpperChars) : {a, b} = {UpperChars[k], LowerChars[k]}

\* C8: Bittrex.format_pair of a two-symbol pair is lowercase, joined by '-',
\* in the same order, and a fixed point of format_pair
C8_LowercaseIdempotent ==
    (formatted.cls = "Bittrex" /\ IsSymbolPair(arg)) =>
        LET r == formatted.outcome.value
        IN  /\ formatted.outcome.kind = "return"
            /\ Len(r) = Len(arg)
            /\ \A i \in 1..Len(r) :
                  /\ ~IsUpper(r[i])
                  /\ IF IsDelim(arg[i]) THEN r[i] = "-" ELSE SameLetter(r[i], arg[i])
            /\ Bittrex_format_pair(r) = r

\* "LTC_btc" has been formatted to "ltc-btc"
C8_MixedCaseUnderscore ==
    /\ formatted.cls = "Bittrex"
    /\ arg = <<"L", "T", "C", "_">> \o btc
    /\ formatted.outcome = Return(ltc \o <<"-">> \o btc)

(***************************************************************************)
(* C2: every private request that is sent has the instance's apikey and a  *)
(* nonce in its query string, the nonce is one no earlier request of the   *)
(* instance carried, and its apisign header is the HMAC-SHA512 signature,  *)
(* keyed by the instance's secret, of the url of that same request.        *)
(***************************************************************************)
\* the requests of the most recent call carry the apikey, the nonce recorded
\* for them, and the signature of their own url
C2_Signed ==
    \A k \in 1..Len(sent) :
        LET r == sent[k]
        IN  /\ Lookup(r.query, "apikey") = <<apikey>>
            /\ Lookup(r.query, "nonce") = <<nonces[Len(nonces) - Len(sent) + k]>>
            /\ r.apisign = <<_generate_signature(secret, Url(r.base, r.query))>>

C2_FreshNonces ==
    \A i, j \in 1..Len(nonces) : i < j => nonces[i] # nonces[j]

\* C2: every private request sent carries the apikey, a nonce no earlier
\* request carried, and the signature of its own url
C2_SignedFreshRequests == C2_Signed /\ C2_FreshNonces

\* two requests have been sent with the nonce 0
C2_NonceReused ==
    /\ Len(nonces) >= 2
    /\ nonces[1] = 0 /\ nonces[2] = 0
    /\ Len(sent) = 1

(***************************************************************************)
(* C3: every public operation of the Bittrex client and of the             *)
(* CoinMarketCap client, whatever the transport does, either returns the   *)
(* venue's payload or raises; none returns None as if it were a result,    *)
(* and a failure envelope ends in APIError with the venue's message.       *)
(***************************************************************************)
FailureEnvelope(resp) == resp.exc = "" /\ resp.json /\ ~resp.success

\* C3: a public operation returns a payload or raises, never returns None, and
\* a failure envelope ends in APIError with the venue's message
C3_ResultOrError ==
    call.op # "none" =>
        /\ result.kind \in {"return", "raise"}
        /\ (result.kind = "return" /\ call.op # "get_base_currencies")
              => result.value # PyNone
        /\ (call.client # "CoinMarketCap" /\ sent # <<>>
                /\ FailureEnvelope(sent[Len(sent)].response))
              => /\ result.kind = "raise"
                 /\ result.error = "APIError"
                 /\ result.msg = sent[Len(sent)].response.message

\* CoinMarketCap.get_global has returned None after a timeout
C3_NoneAfterTimeout ==
    /\ call.client = "CoinMarketCap"
    /\ call.op = "get_global"
    /\ sent[1].response.exc = "Timeout"
    /\ result = Return(PyNone)

\* what does hold: the statement for the operations of the Bittrex client
C3_BittrexResultOrError == call.client # "CoinMarketCap" => C3_ResultOrError

(***************************************************************************)
(* C4: get_market_trade_history with depth > 200 and get_market_orders     *)
(* with depth > 50 raise ValueError with no request issued and the nonce   *)
(* and the headers unchanged; with a depth at or below the maximum the     *)
(* depth check raises nothing.                                             *)
(***************************************************************************)
DepthOps == {"get_market_trade_history", "get_market_orders"}

DepthLimit(op) == IF op = "get_market_trade_history" THEN 200 ELSE 50

IsDepthError(r) ==
    /\ r.kind = "raise"
    /\ r.error = "ValueError"
    /\ r.msg \in {"Bittrex API allows maximum history of last 200 trades.",
                  "Bittrex API allows maximum depth of last 50 offers."}

\* C4: a depth above the maximum raises ValueError, with no request and the
\* nonce and headers unchanged; a depth within the maximum raises no such
\* error.  (A step that leaves the clock alone and ends with a depth-limited
\* operation as the most recent call is a call of that operation.)
C4_DepthRejected ==
    [][ (clock' = clock /\ call'.op \in DepthOps) =>
            IF call'.depth > DepthLimit(call'.op)
            THEN /\ IsDepthError(result')
                 /\ sent' = <<>>
                 /\ UNCHANGED <<_nonce, headers, nonces>>
            ELSE ~IsDepthError(result') ]_vars

\* get_market_orders with depth 51 has raised on an instance that has a nonce
\* and a signature header from an earlier private call
C4_RejectedWithState ==
    /\ call.op = "get_market_orders"
    /\ call.depth = 51
    /\ IsDepthError(result)
    /\ sent = <<>>
    /\ _nonce # NoAttr
    /\ headers # NoSign

(***************************************************************************)
(* C6: cancel_all_orders issues one getopenorders request and then one     *)
(* cancel request per listed order, in the listed order; when the cancel   *)
(* of an order fails the error reaches the caller and no cancel request is *)
(* sent for any later order; when none fails every listed order gets its   *)
(* cancel request.                                                         *)
(***************************************************************************)
Fails(resp) == resp.exc # "" \/ ~resp.json \/ ~resp.success

ErrorOf(resp) ==
    IF resp.exc # "" THEN resp.exc
    ELSE IF ~resp.json THEN "JSONDecodeError"
    ELSE "APIError"

\* C6: one getopenorders request, then the cancel requests of the listed
\* orders in order, stopping at the first cancel that fails, whose error is
\* the outcome.  (Without credentials the call raises AttributeError before
\* any request.)
C6_CancelInOrder ==
    /\ (call.op = "cancel_all_orders" /\ sent = <<>>)
          => (~creds /\ result.error = "AttributeError")
    /\ (call.op = "cancel_all_orders" /\ sent # <<>>) =>
        LET listed == call.orders
        IN  /\ sent[1].base = "market/getopenorders"
            /\ Len(sent) <= 1 + Len(listed)
            /\ Len(sent) = 1 + (Len(listed) - Len(todo))
            /\ \A k \in 2..Len(sent) :
                  /\ sent[k].base = "market/cancel"
                  /\ Lookup(sent[k].query, "uuid") = <<listed[k - 1]>>
            /\ \A k \in 1..Len(sent) :
                  Fails(sent[k].response) =>
                      /\ k = Len(sent)
                      /\ result.kind = "raise"
                      /\ result.error = ErrorOf(sent[k].response)
            /\ result.kind = "return" => Len(sent) = 1 + Len(listed)
            /\ result.kind = "raise" => Fails(sent[Len(sent)].response)

\* the cancel of the first of two listed orders has failed: the second order
\* is left
C6_StoppedAtFirst ==
    /\ call.op = "cancel_all_orders"
    /\ Len(call.orders) = 2
    /\ Len(sent) = 2
    /\ Fails(sent[2].response)
    /\ result.kind = "raise"
    /\ Len(todo) = 1

(***************************************************************************)
(* C7: get_base_currencies, on a Bittrex and on a BittrexNormalized        *)
(* instance alike, raises OutdatedBaseCurrenciesError exactly when the set *)
(* of base symbols of the markets the venue lists differs from             *)
(* {btc, eth, usdt}, and the error carries the venue's set as 'actual' and *)
(* the hardcoded set as 'hardcoded'.                                       *)
(***************************************************************************)
\* the venue names a market BASE-QUOTE
VenueBases(names) == {StrLower(StrSplit(n, "-")[1]) : n \in Elems(names)}

\* C7: get_base_currencies raises OutdatedBaseCurrenciesError exactly when
\* the venue's base symbols differ from the hardcoded ones, on both classes
C7_OutdatedExactly ==
    (call.op = "get_base_currencies" /\ sent # <<>> /\ ~Fails(sent[1].response)) =>
        LET bases == VenueBases(sent[1].response.result.v)
        IN  IF bases # {btc, eth, usdt}
            THEN /\ result.kind = "raise"
                 /\ result.error = "OutdatedBaseCurrenciesError"
                 /\ result.value.actual = bases
                 /\ Elems(result.value.hardcoded) = {btc, eth, usdt}
            ELSE result = Return(PyNone)

\* a BittrexNormalized instance has raised although the venue's bases are
\* the hardcoded ones
C7_RaisedThoughEqual ==
    /\ cls = "BittrexNormalized"
    /\ call.op = "get_base_currencies"
    /\ sent # <<>> /\ ~Fails(sent[1].response)
    /\ VenueBases(sent[1].response.result.v) = {btc, eth, usdt}
    /\ result.kind = "raise"
    /\ result.error = "OutdatedBaseCurrenciesError"

\* what does hold: the statement on an instance of class Bittrex
C7_BittrexOutdatedExactly == cls = "Bittrex" => C7_OutdatedExactly

(***************************************************************************)
(* C9: a pair-taking public operation of BittrexNormalized, called with a  *)
(* quote-base pair whose base is a base currency, does not fail with a     *)
(* pair-format error, and the 'market' parameter of its request is the     *)
(* base-first string one application of format_pair gives.                 *)
(***************************************************************************)
PairOps ==
    {"get_market_ticker", "get_market_trade_history", "get_market_orders",
     "get_market_depth", "get_market_summary", "get_market_spread"}

\* quote '-' base, the quote not empty, the lowercased base a base currency
IsQuoteBase(p) ==
    /\ Count(p, "-") = 1
    /\ Count(p, "_") = 0
    /\ p[1] # "-"
    /\ AfterLastDash(StrLower(p)) \in {btc, eth, usdt}

BaseFirst(p) == AfterLastDash(StrLower(p)) \o <<"-">> \o BeforeLastDash(StrLower(p))

\* C9: no pair-format error for a valid quote-base pair, and the market
\* parameter is the base-first string of one format_pair
C9_MarketParameter ==
    (cls = "BittrexNormalized" /\ call.client = cls /\ call.op \in PairOps
        /\ IsQuoteBase(call.pair)) =>
        /\ result.error \notin {"InvalidDelimiterError", "InvalidBaseCurrencyError"}
        /\ \A k \in 1..Len(sent) :
              Lookup(sent[k].query, "market") = <<BaseFirst(call.pair)>>

\* get_market_depth("ltc-btc") has failed with InvalidBaseCurrencyError
C9_DepthRejectsValidPair ==
    /\ cls = "BittrexNormalized"
    /\ call.op = "get_market_depth"
    /\ call.pair = ltc \o <<"-">> \o btc
    /\ result.error = "InvalidBaseCurrencyError"

\* what does hold: the statement for the operations that format the pair once
C9_SingleFormatOps ==
    call.op \notin {"get_market_depth", "get_market_spread"} => C9_MarketParameter


=============================================================================
